---- MODULE Spec2Model ----
(***************************************************************************)
(* The Quadrate SQLite driver (src/src/sqlite.c): every usr_sqlite_*       *)
(* primitive pops its operands from the VM stack, calls the native engine, *)
(* and pushes its results / sets the error context of the qd_context.      *)
(*                                                                         *)
(* The stack is a sequence whose LAST element is the top.  The native      *)
(* engine is modelled by its documented C API behaviour on the handles the *)
(* driver hands to it; a call on a released handle is undefined behaviour  *)
(* and is modelled as a choice over the outcomes it can produce.           *)
(***************************************************************************)
EXTENDS Integers, Sequences, FiniteSets, TLC

VARIABLES stack, db, stmt, err, last, input

vars == <<stack, db, stmt, err, last, input>>

(* ---------------------------------------------------------------- bounds *)

\* deepest operand stack explored
MaxDepth == 3
\* connections the native engine hands out in one run
MaxDb == 1
\* statements the native engine hands out in one run
MaxStmt == 1
\* rows the table t holds before the engine reports the database full
MaxRows == 1

(* ------------------------------------------------------- error codes     *)

SQLITE_ERR_OK == 1
SQLITE_ERR_OPEN == 2
SQLITE_ERR_EXEC == 3
SQLITE_ERR_PREPARE == 4
SQLITE_ERR_BIND == 5
SQLITE_ERR_STEP == 6
SQLITE_ERR_INVALID_ARG == 7

(* ------------------------------------------------------- stack elements  *)
\* qd_stack_element_t: a type tag and a value.  A 64-bit integer is kept as
\* its upper 32 bits (h) and its lower 32 bits read as a signed int (i), so
\* that the C cast (int)value is exactly the field i.  A float keeps its
\* value in i (0 is 0.0), a pointer its address in i (0 is NULL).
QdInt64(hi, lo) == [t |-> "INT", h |-> hi, i |-> lo, s |-> ""]
QdInt(n) == QdInt64(0, n)
QdFloat(n) == [t |-> "FLOAT", h |-> 0, i |-> n, s |-> ""]
QdStr(x) == [t |-> "STR", h |-> 0, i |-> 0, s |-> x]
QdPtr(a) == [t |-> "PTR", h |-> 0, i |-> a, s |-> ""]

\* the SQL NULL a parameter holds until it is bound
SqlNull == [t |-> "NULL", h |-> 0, i |-> 0, s |-> ""]

\* a conversion that refuses what does not fit an int (gives index 0)
CastIntChecked(e) == IF e.h # 0 THEN 0 ELSE e.i

\* (int)index_elem.value.i : the low 32 bits, as a signed int
CastInt(e) == e.i

\* addresses of the native objects: connections 1.., statements 101..
DbAddrs == 1..MaxDb
StmtSlots(n) == {100 + k : k \in 1..n}
StmtAddrs == DOMAIN stmt

(* ------------------------------------------------------- texts           *)

MemoryPath == ":memory:"
BadPath == "/nodir/x.db"
SqlTwoRows == "SELECT 1 UNION SELECT 2"
SqlParam == "SELECT ?1 WHERE ?1 IS NOT NULL"
SqlInsert == "INSERT INTO t VALUES (?1)"
SqlSelect == "SELECT x FROM t"

\* text values: two bytes, and 2^32 bytes none of which is NUL
ShortText == "ab"
HugeText == "a...a (4294967296 bytes)"

\* qd_string_length: the size_t length of a text in bytes, as a 64-bit value
TextLen(x) ==
    CASE x = "" -> QdInt64(0, 0)
      [] x = ShortText -> QdInt64(0, 2)
      [] x = HugeText -> QdInt64(1, 0)
      [] x = MemoryPath -> QdInt64(0, 8)
      [] x = BadPath -> QdInt64(0, 11)
      [] x = SqlTwoRows -> QdInt64(0, 23)
      [] x = SqlParam -> QdInt64(0, 30)
      [] x = SqlInsert -> QdInt64(0, 25)
      [] x = SqlSelect -> QdInt64(0, 15)

\* the text of the first n bytes of x, for 0 <= n <= length of x
TextPrefix(x, n) ==
    CASE TextLen(x) = QdInt64(0, n) -> x
      [] n = 0 -> ""

\* ctx->error_msg == NULL
NullMsg == ""

(* ------------------------------------------------------- native engine   *)
\* A connection: st is "none" (not handed out), "open" or "closed".
\* A statement: st is "none", "live" or "freed"; run is "ready" (not stepped
\* since prepare/reset), "rows" (the last step gave a row) or "halt" (the
\* last step gave SQLITE_DONE) or "error" (the last step failed); pos counts
\* the rows given since the statement last started.

\* tbl: the table t (x) exists; tab: the values of its rows, oldest first.
NoDb == [st |-> "none", txn |-> FALSE, tbl |-> FALSE, tab |-> <<>>]
NoStmt == [st |-> "none", of |-> 0, sql |-> "", bind |-> SqlNull, run |-> "ready", pos |-> 0]
FreedStmt == [NoStmt EXCEPT !.st = "freed"]

IsOpenDb(a) == a \in DbAddrs /\ db[a].st = "open"
IsLiveStmt(a) == a \in StmtAddrs /\ stmt[a].st = "live"

\* how the engine sees a handle it is given as a connection / a statement:
\* "valid", "null", "stale" (released before) or "foreign" (never one)
DbClass(a) ==
    IF a = 0 THEN "null"
    ELSE IF IsOpenDb(a) THEN "valid"
    ELSE IF a \in DbAddrs /\ db[a].st = "closed" THEN "stale"
    ELSE "foreign"
StmtClass(a) ==
    IF a = 0 THEN "null"
    ELSE IF IsLiveStmt(a) THEN "valid"
    ELSE IF a \in StmtAddrs /\ stmt[a].st = "freed" THEN "stale"
    ELSE "foreign"

\* an address the engine has not handed out yet (0 when none is left)
FreeDb ==
    IF \E a \in DbAddrs : db[a].st = "none"
    THEN CHOOSE a \in DbAddrs : db[a].st = "none" /\ \A b \in DbAddrs : db[b].st = "none" => a <= b
    ELSE 0
FreeStmt ==
    IF \E a \in StmtAddrs : stmt[a].st = "none"
    THEN CHOOSE a \in StmtAddrs : stmt[a].st = "none" /\ \A b \in StmtAddrs : stmt[b].st = "none" => a <= b
    ELSE 0

\* is the text SQL the engine compiles (the empty text compiles to no statement)
IsSql(x) == x \in {SqlTwoRows, SqlParam, SqlInsert, SqlSelect, ""}

\* sqlite3_bind_parameter_count
NParams(x) == IF x \in {SqlParam, SqlInsert} THEN 1 ELSE 0

\* the rows a statement yields under its current binding
Rows(x, b) ==
    IF x = SqlTwoRows THEN <<QdInt(1), QdInt(2)>>
    ELSE IF x = SqlParam /\ b.t # "NULL" THEN <<b>>
    ELSE <<>>

\* the rows a live statement yields: a SELECT on t reads its connection's table
RowsOf(s) == IF s.sql = SqlSelect THEN db[s.of].tab ELSE Rows(s.sql, s.bind)

\* a native result: the result code and the engine's diagnostic text
\* (NullMsg when the engine sets none)
Rc(code, text) == [rc |-> code, text |-> text]
RcOk == Rc("SQLITE_OK", "not an error")
RcMisuse == Rc("SQLITE_MISUSE", "bad parameter or other API misuse")
RcSyntax == Rc("SQLITE_ERROR", "syntax error")
RcBusy == Rc("SQLITE_BUSY", "database is locked")
RcFull == Rc("SQLITE_FULL", "database or disk is full")
RcTooBig == Rc("SQLITE_TOOBIG", "string or blob too big")

\* compiling the text x on the open connection a
Compile(a, x) ==
    IF ~IsSql(x) THEN RcSyntax
    ELSE IF x \in {SqlInsert, SqlSelect} /\ ~db[a].tbl THEN Rc("SQLITE_ERROR", "no such table: t")
    ELSE RcOk

\* the connections after the INSERT on connection a stored the value v
InsertAfter(a, v) == [db EXCEPT ![a].tab = Append(@, v)]
IsFull(a) == Len(db[a].tab) >= MaxRows

\* sqlite3_open(path, &db)
Sqlite3Open(path) ==
    IF path = BadPath THEN Rc("SQLITE_CANTOPEN", "unable to open database file") ELSE RcOk

\* sqlite3_exec(db, sql, NULL, NULL, &errmsg): the possible results.  On a
\* handle that is not an open connection the engine sets no errmsg.
Sqlite3Exec(a, x) ==
    CASE DbClass(a) = "valid" ->
            {IF Compile(a, x) # RcOk THEN Compile(a, x)
             ELSE IF x = SqlInsert /\ IsFull(a) THEN RcFull
             ELSE RcOk}
      [] DbClass(a) = "null" -> {Rc("SQLITE_MISUSE", NullMsg)}
      [] OTHER -> {RcOk, Rc("SQLITE_MISUSE", NullMsg)}

\* sqlite3_exec of BEGIN TRANSACTION / COMMIT / ROLLBACK
Sqlite3ExecTxn(a, cmd) ==
    CASE DbClass(a) = "valid" ->
            {IF cmd = "BEGIN TRANSACTION"
             THEN (IF db[a].txn THEN Rc("SQLITE_ERROR", "cannot start a transaction within a transaction") ELSE RcOk)
             ELSE (IF db[a].txn THEN RcOk ELSE Rc("SQLITE_ERROR", "no transaction is active"))}
      [] DbClass(a) = "null" -> {Rc("SQLITE_MISUSE", NullMsg)}
      [] OTHER -> {RcOk, Rc("SQLITE_MISUSE", NullMsg)}

\* the connections after sqlite3_exec(db, sql) returned SQLITE_OK: an INSERT
\* whose parameter nothing binds stores NULL
ExecAfter(a, x) == IF IsOpenDb(a) /\ x = SqlInsert THEN InsertAfter(a, SqlNull) ELSE db

\* the connection after a successful BEGIN / COMMIT / ROLLBACK
TxnAfter(a, cmd) ==
    IF IsOpenDb(a) THEN [db EXCEPT ![a].txn = (cmd = "BEGIN TRANSACTION")] ELSE db

\* sqlite3_prepare_v2(db, sql, -1, &stmt, NULL): the possible results
Sqlite3Prepare(a, x) ==
    CASE DbClass(a) = "valid" -> {Compile(a, x)}
      [] DbClass(a) = "null" -> {RcMisuse}
      [] OTHER -> {RcMisuse, RcSyntax}

\* the row cursor a step starts from: a halted or failed statement restarts
StepFrom(s) == IF s.run \in {"halt", "error"} THEN 0 ELSE s.pos

\* sqlite3_step(stmt): the possible results
Sqlite3Step(a) ==
    CASE StmtClass(a) = "valid" ->
            {IF StepFrom(stmt[a]) < Len(RowsOf(stmt[a])) THEN Rc("SQLITE_ROW", "not an error")
             ELSE IF stmt[a].sql = SqlInsert /\ IsFull(stmt[a].of) THEN RcFull
             ELSE Rc("SQLITE_DONE", "not an error")}
            \cup (IF stmt[a].run # "rows" THEN {RcBusy} ELSE {})  \* another process holds the lock
      [] StmtClass(a) = "null" -> {RcMisuse}
      [] OTHER -> {RcMisuse, Rc("SQLITE_DONE", "not an error")}

\* the statements after sqlite3_step(stmt) returned r
StepAfter(a, r) ==
    IF ~IsLiveStmt(a) THEN stmt
    ELSE IF r.rc = "SQLITE_ROW" THEN [stmt EXCEPT ![a].run = "rows", ![a].pos = StepFrom(stmt[a]) + 1]
    ELSE IF r.rc = "SQLITE_DONE" THEN [stmt EXCEPT ![a].run = "halt", ![a].pos = StepFrom(stmt[a])]
    ELSE [stmt EXCEPT ![a].run = "error", ![a].pos = 0]

\* the connections after sqlite3_step(stmt) returned r: a completed INSERT
\* has stored the value bound to its parameter
DbStepAfter(a, r) ==
    IF IsLiveStmt(a) /\ stmt[a].sql = SqlInsert /\ r.rc = "SQLITE_DONE"
    THEN InsertAfter(stmt[a].of, stmt[a].bind)
    ELSE db

\* sqlite3_bind_*(stmt, index, value): the possible results
Sqlite3Bind(a, index) ==
    CASE StmtClass(a) = "valid" ->
            {IF stmt[a].run # "ready" THEN RcMisuse
             ELSE IF index < 1 \/ index > NParams(stmt[a].sql) THEN Rc("SQLITE_RANGE", "column index out of range")
             ELSE RcOk}
      [] StmtClass(a) = "null" -> {RcMisuse}
      [] OTHER -> {RcMisuse, RcOk}

\* SQLITE_MAX_LENGTH: the most bytes the engine takes for one text
SqliteMaxLength == 1000000000

\* sqlite3_bind_text(stmt, index, value, n, SQLITE_TRANSIENT) of the text x:
\* a negative n means "up to the NUL terminator", which for a NUL-free text
\* that long is more than the engine takes
Sqlite3BindText(a, index, x, n) ==
    IF Sqlite3Bind(a, index) = {RcOk} /\ (n < 0 \/ n > SqliteMaxLength)
    THEN {RcTooBig}
    ELSE Sqlite3Bind(a, index)

\* the value the engine keeps for the text x bound with byte count n
BoundText(x, n) == QdStr(TextPrefix(x, n))

\* the statements after sqlite3_bind_*(stmt, index, value) returned SQLITE_OK
BindAfter(a, index, value) ==
    IF IsLiveStmt(a) THEN [stmt EXCEPT ![a].bind = value] ELSE stmt

\* sqlite3_reset(stmt): the error of the most recent step, if it failed
Sqlite3Reset(a) ==
    CASE StmtClass(a) = "valid" ->
            IF stmt[a].run # "error" THEN {RcOk}
            ELSE IF stmt[a].sql = SqlInsert THEN {RcBusy, RcFull}
            ELSE {RcBusy}
      [] StmtClass(a) = "null" -> {RcOk}
      [] OTHER -> {RcOk, RcMisuse}

\* the statements after sqlite3_reset(stmt)
ResetAfter(s, a) ==
    IF a \in StmtAddrs /\ s[a].st = "live" THEN [s EXCEPT ![a].run = "ready", ![a].pos = 0] ELSE s

\* the statements after sqlite3_clear_bindings(stmt)
ClearBindingsAfter(s, a) ==
    IF a \in StmtAddrs /\ s[a].st = "live" THEN [s EXCEPT ![a].bind = SqlNull] ELSE s

\* the statements after sqlite3_finalize(stmt)
FinalizeAfter(a) ==
    IF IsLiveStmt(a) THEN [stmt EXCEPT ![a] = FreedStmt] ELSE stmt

\* the connections after sqlite3_close(db): a connection that still has
\* live statements answers SQLITE_BUSY and stays open
CloseAfter(a) ==
    IF IsOpenDb(a) /\ ~\E q \in StmtAddrs : stmt[q].st = "live" /\ stmt[q].of = a
    THEN [db EXCEPT ![a] = [NoDb EXCEPT !.st = "closed"]]
    ELSE db

(* ------------------------------------------------------- call records    *)

\* what one primitive call did, in order: native calls (with how the engine
\* sees the handle at that moment) and string releases
\* rc/text: what the native call returned; run: the run state a live
\* statement was in when called; out: the handle the call produced
Native(f, a, c) ==
    [k |-> "native", f |-> f, a |-> a, c |-> c, s |-> "", rc |-> "", text |-> "", run |-> "", out |-> 0]
Release(x) ==
    [k |-> "release", f |-> "qd_string_release", a |-> 0, c |-> "", s |-> x, rc |-> "", text |-> "", run |-> "", out |-> 0]
DbCall(f, a, r) == [Native(f, a, DbClass(a)) EXCEPT !.rc = r.rc, !.text = r.text]
StmtCall(f, a, r) ==
    [Native(f, a, StmtClass(a)) EXCEPT !.rc = r.rc, !.text = r.text,
                                        !.run = IF IsLiveStmt(a) THEN stmt[a].run ELSE ""]
\* a native call whose result the driver does not look at
NoRc == [rc |-> "", text |-> ""]

NoCall == [op |-> "none", ret |-> 0, npop |-> 0, pushed |-> <<>>, ev |-> <<>>]

Min(a, b) == IF a <= b THEN a ELSE b

\* the element the i-th qd_stack_pop of a call returns (1 = top)
Arg(i) == stack[Len(stack) + 1 - i]

\* the i-th qd_stack_pop succeeded and the element has the wanted type
PopOk(i, kind) == Len(stack) >= i /\ Arg(i).t = kind

\* the stack after n pops and the pushes, and the record of the call
Finish(op, n, pushes, ret, events) ==
    /\ stack' = SubSeq(stack, 1, Len(stack) - n) \o pushes
    /\ last' = [op |-> op, ret |-> ret, npop |-> n, pushed |-> pushes, ev |-> events]
    /\ input' = input

\* set_error_msg: the error context with the message replaced
set_error_msg(msg) == [err EXCEPT !.msg = msg]

\* set_sqlite_error: "%s: %s" of the prefix and sqlite3_errmsg(db),
\* "unknown error" when db is NULL
set_sqlite_error(prefix, a, text) ==
    [err EXCEPT !.msg = prefix \o ": " \o (IF a # 0 THEN text ELSE "unknown error")]

\* the errmsg branch of exec/begin/commit/rollback: "<prefix>%s" of errmsg,
\* or the fixed text when errmsg is NULL
ExecErrorMsg(prefix, text, fixed) ==
    [err EXCEPT !.msg = IF text # NullMsg THEN prefix \o text ELSE fixed]

\* a mismatch exit that, like close's, sets the message but not the code
InvalidArgNoCode(op, i, msg) ==
    /\ Finish(op, Min(i, Len(stack)), <<>>, SQLITE_ERR_INVALID_ARG, <<>>)
    /\ err' = set_error_msg(msg)
    /\ UNCHANGED <<db, stmt>>

\* the mismatch exit at the i-th pop: set_error_msg, error_code and the
\* return value are SQLITE_ERR_INVALID_ARG
InvalidArg(op, i, msg) ==
    /\ Finish(op, Min(i, Len(stack)), <<>>, SQLITE_ERR_INVALID_ARG, <<>>)
    /\ err' = [set_error_msg(msg) EXCEPT !.code = SQLITE_ERR_INVALID_ARG]
    /\ UNCHANGED <<db, stmt>>

\* a native failure exit that also pushes the code as a status
NativeFailPushes(op, n, code, newerr, events) ==
    /\ Finish(op, n, <<QdInt(code)>>, code, events)
    /\ err' = [newerr EXCEPT !.code = code]

\* a native failure exit after n pops: error_code and the return value
NativeFail(op, n, code, newerr, events) ==
    /\ Finish(op, n, <<>>, code, events)
    /\ err' = [newerr EXCEPT !.code = code]

(* ------------------------------------------------------- primitives      *)

\* open (path:str -- db:ptr)!
UsrSqliteOpen ==
    IF ~PopOk(1, "STR") THEN InvalidArg("open", 1, "sqlite::open: expected string path")
    ELSE LET path == Arg(1).s
             h == FreeDb
             r == Sqlite3Open(path)
         IN /\ h # 0
            /\ IF r.rc # "SQLITE_OK"
               THEN /\ NativeFail("open", 1, SQLITE_ERR_OPEN,
                                  set_sqlite_error("sqlite::open", h, r.text),
                                  <<[Native("sqlite3_open", 0, "") EXCEPT !.rc = r.rc, !.text = r.text, !.out = h],
                                    Release(path), Native("sqlite3_close", h, "valid")>>)
                    /\ UNCHANGED <<db, stmt>>
               ELSE /\ Finish("open", 1, <<QdPtr(h), QdInt(SQLITE_ERR_OK)>>, 0,
                              <<[Native("sqlite3_open", 0, "") EXCEPT !.rc = r.rc, !.text = r.text, !.out = h],
                                Release(path)>>)
                    /\ db' = [db EXCEPT ![h] = [NoDb EXCEPT !.st = "open"]]
                    /\ UNCHANGED <<stmt, err>>

\* close (db:ptr -- )
UsrSqliteClose ==
    IF ~PopOk(1, "PTR")
    THEN /\ Finish("close", Min(1, Len(stack)), <<>>, 0, <<>>)
         /\ err' = set_error_msg("sqlite::close: expected pointer")
         /\ UNCHANGED <<db, stmt>>
    ELSE LET a == Arg(1).i
         IN /\ Finish("close", 1, <<>>, 0,
                      IF a # 0 THEN <<DbCall("sqlite3_close", a, NoRc)>> ELSE <<>>)
            /\ db' = IF a # 0 THEN CloseAfter(a) ELSE db
            /\ UNCHANGED <<stmt, err>>

\* exec (sql:str db:ptr -- )!
UsrSqliteExec ==
    IF ~PopOk(1, "PTR") THEN InvalidArg("exec", 1, "sqlite::exec: expected database pointer")
    ELSE IF ~PopOk(2, "STR") THEN InvalidArg("exec", 2, "sqlite::exec: expected SQL string")
    ELSE LET a == Arg(1).i
             sql == Arg(2).s
             ev(r) == <<DbCall("sqlite3_exec", a, r), Release(sql)>>
         IN \E r \in Sqlite3Exec(a, sql) :
               IF r.rc # "SQLITE_OK"
               THEN /\ NativeFail("exec", 2, SQLITE_ERR_EXEC,
                                  ExecErrorMsg("sqlite::exec: ", r.text, "sqlite::exec: execution failed"), ev(r))
                    /\ UNCHANGED <<db, stmt>>
               ELSE /\ Finish("exec", 2, <<QdInt(SQLITE_ERR_OK)>>, 0, ev(r))
                    /\ db' = ExecAfter(a, sql)
                    /\ UNCHANGED <<stmt, err>>

\* prepare (sql:str db:ptr -- stmt:ptr)!
UsrSqlitePrepare ==
    IF ~PopOk(1, "PTR") THEN InvalidArg("prepare", 1, "sqlite::prepare: expected database pointer")
    ELSE IF ~PopOk(2, "STR") THEN InvalidArg("prepare", 2, "sqlite::prepare: expected SQL string")
    ELSE LET a == Arg(1).i
             sql == Arg(2).s
             h == IF sql = "" THEN 0 ELSE FreeStmt
             ev(r) == <<[DbCall("sqlite3_prepare_v2", a, r) EXCEPT !.out = IF r.rc = "SQLITE_OK" THEN h ELSE 0],
                        Release(sql)>>
         IN \E r \in Sqlite3Prepare(a, sql) :
               IF r.rc # "SQLITE_OK"
               THEN /\ NativeFail("prepare", 2, SQLITE_ERR_PREPARE,
                                  set_sqlite_error("sqlite::prepare", a, r.text), ev(r))
                    /\ UNCHANGED <<db, stmt>>
               ELSE /\ sql # "" => h # 0
                    /\ Finish("prepare", 2, <<QdPtr(h), QdInt(SQLITE_ERR_OK)>>, 0, ev(r))
                    /\ stmt' = IF h # 0
                               THEN [stmt EXCEPT ![h] = [NoStmt EXCEPT !.st = "live", !.of = a, !.sql = sql]]
                               ELSE stmt
                    /\ UNCHANGED <<db, err>>

\* bind_text / bind_int / bind_float (value index:i64 stmt:ptr -- )! : the
\* three differ in the type of the value, the native bind they call, and
\* bind_text's release of the string after the native call
BindValue(op, kind, what, native) ==
    IF ~PopOk(1, "PTR") THEN InvalidArg(op, 1, "sqlite::" \o op \o ": expected statement pointer")
    ELSE IF ~PopOk(2, "INT") THEN InvalidArg(op, 2, "sqlite::" \o op \o ": expected integer index")
    ELSE IF ~PopOk(3, kind) THEN InvalidArg(op, 3, "sqlite::" \o op \o ": expected " \o what \o " value")
    ELSE LET a == Arg(1).i
             index == CastInt(Arg(2))
             len == IF kind = "STR" THEN TextLen(Arg(3).s) ELSE QdInt(0)
             value == IF kind = "STR" THEN BoundText(Arg(3).s, CastInt(len)) ELSE Arg(3)
             ev(r) == <<StmtCall(native, a, r)>>
                      \o (IF kind = "STR" THEN <<Release(Arg(3).s)>> ELSE <<>>)
         IN \E r \in (IF kind = "STR" THEN Sqlite3BindText(a, index, Arg(3).s, CastInt(len))
                      ELSE Sqlite3Bind(a, index)) :
               IF r.rc # "SQLITE_OK"
               THEN /\ NativeFail(op, 3, SQLITE_ERR_BIND,
                                  set_error_msg("sqlite::" \o op \o ": bind failed"), ev(r))
                    /\ UNCHANGED <<db, stmt>>
               ELSE /\ Finish(op, 3, <<QdInt(SQLITE_ERR_OK)>>, 0, ev(r))
                    /\ stmt' = BindAfter(a, index, value)
                    /\ UNCHANGED <<db, err>>

UsrSqliteBindText == BindValue("bind_text", "STR", "string", "sqlite3_bind_text")

UsrSqliteBindInt == BindValue("bind_int", "INT", "integer", "sqlite3_bind_int64")

UsrSqliteBindFloat == BindValue("bind_float", "FLOAT", "float", "sqlite3_bind_double")

\* bind_null (index:i64 stmt:ptr -- )!
UsrSqliteBindNull ==
    IF ~PopOk(1, "PTR") THEN InvalidArg("bind_null", 1, "sqlite::bind_null: expected statement pointer")
    ELSE IF ~PopOk(2, "INT") THEN InvalidArg("bind_null", 2, "sqlite::bind_null: expected integer index")
    ELSE LET a == Arg(1).i
             index == CastInt(Arg(2))
             ev(r) == <<StmtCall("sqlite3_bind_null", a, r)>>
         IN \E r \in Sqlite3Bind(a, index) :
               IF r.rc # "SQLITE_OK"
               THEN /\ NativeFail("bind_null", 2, SQLITE_ERR_BIND,
                                  set_error_msg("sqlite::bind_null: bind failed"), ev(r))
                    /\ UNCHANGED <<db, stmt>>
               ELSE /\ Finish("bind_null", 2, <<QdInt(SQLITE_ERR_OK)>>, 0, ev(r))
                    /\ stmt' = BindAfter(a, index, SqlNull)
                    /\ UNCHANGED <<db, err>>

\* a step that reports SQLITE_DONE as a row
UsrSqliteStepDoneAsRow ==
    IF ~PopOk(1, "PTR") THEN InvalidArg("step", 1, "sqlite::step: expected statement pointer")
    ELSE LET a == Arg(1).i
             ev(r) == <<StmtCall("sqlite3_step", a, r)>>
         IN \E r \in Sqlite3Step(a) :
               /\ stmt' = StepAfter(a, r)
               /\ db' = DbStepAfter(a, r)
               /\ IF r.rc \in {"SQLITE_ROW", "SQLITE_DONE"}
                  THEN Finish("step", 1, <<QdInt(1), QdInt(SQLITE_ERR_OK)>>, 0, ev(r)) /\ err' = err
                  ELSE NativeFail("step", 1, SQLITE_ERR_STEP,
                                  set_error_msg("sqlite::step: execution failed"), ev(r))

\* step (stmt:ptr -- has_row:i64)!
UsrSqliteStep ==
    IF ~PopOk(1, "PTR") THEN InvalidArg("step", 1, "sqlite::step: expected statement pointer")
    ELSE LET a == Arg(1).i
             ev(r) == <<StmtCall("sqlite3_step", a, r)>>
         IN \E r \in Sqlite3Step(a) :
               /\ stmt' = StepAfter(a, r)
               /\ db' = DbStepAfter(a, r)
               /\ IF r.rc = "SQLITE_ROW"
                  THEN Finish("step", 1, <<QdInt(1), QdInt(SQLITE_ERR_OK)>>, 0, ev(r)) /\ err' = err
                  ELSE IF r.rc = "SQLITE_DONE"
                  THEN Finish("step", 1, <<QdInt(0), QdInt(SQLITE_ERR_OK)>>, 0, ev(r)) /\ err' = err
                  ELSE NativeFail("step", 1, SQLITE_ERR_STEP,
                                  set_error_msg("sqlite::step: execution failed"), ev(r))

\* a reset that reports the native reset's failure as a step error
UsrSqliteResetChecked ==
    IF ~PopOk(1, "PTR") THEN InvalidArg("reset", 1, "sqlite::reset: expected statement pointer")
    ELSE LET a == Arg(1).i
         IN \E r \in Sqlite3Reset(a) :
               /\ stmt' = ClearBindingsAfter(ResetAfter(stmt, a), a)
               /\ db' = db
               /\ IF r.rc = "SQLITE_OK"
                  THEN /\ Finish("reset", 1, <<QdInt(SQLITE_ERR_OK)>>, 0,
                                 <<StmtCall("sqlite3_reset", a, r),
                                   StmtCall("sqlite3_clear_bindings", a, NoRc)>>)
                       /\ err' = err
                  ELSE NativeFail("reset", 1, SQLITE_ERR_STEP,
                                  set_error_msg("sqlite::reset: failed"),
                                  <<StmtCall("sqlite3_reset", a, r),
                                    StmtCall("sqlite3_clear_bindings", a, NoRc)>>)

\* reset (stmt:ptr -- )!
UsrSqliteReset ==
    IF ~PopOk(1, "PTR") THEN InvalidArg("reset", 1, "sqlite::reset: expected statement pointer")
    ELSE LET a == Arg(1).i
         IN \E r \in Sqlite3Reset(a) :
               /\ Finish("reset", 1, <<QdInt(SQLITE_ERR_OK)>>, 0,
                         <<StmtCall("sqlite3_reset", a, r),
                           StmtCall("sqlite3_clear_bindings", a, NoRc)>>)
               /\ stmt' = ClearBindingsAfter(ResetAfter(stmt, a), a)
               /\ UNCHANGED <<db, err>>

\* finalize (stmt:ptr -- )
UsrSqliteFinalize ==
    IF ~PopOk(1, "PTR")
    THEN /\ Finish("finalize", Min(1, Len(stack)), <<>>, 0, <<>>)
         /\ UNCHANGED <<db, stmt, err>>
    ELSE LET a == Arg(1).i
         IN /\ Finish("finalize", 1, <<>>, 0,
                      IF a # 0 THEN <<StmtCall("sqlite3_finalize", a, NoRc)>> ELSE <<>>)
            /\ stmt' = IF a # 0 THEN FinalizeAfter(a) ELSE stmt
            /\ UNCHANGED <<db, err>>

\* begin / commit / rollback (db:ptr -- )! : sqlite3_exec of the command
TxnCommand(op, cmd) ==
    IF ~PopOk(1, "PTR") THEN InvalidArg(op, 1, "sqlite::" \o op \o ": expected database pointer")
    ELSE LET a == Arg(1).i
             ev(r) == <<DbCall("sqlite3_exec", a, r)>>
         IN \E r \in Sqlite3ExecTxn(a, cmd) :
               IF r.rc # "SQLITE_OK"
               THEN /\ NativeFail(op, 1, SQLITE_ERR_EXEC,
                                  ExecErrorMsg("sqlite::" \o op \o ": ", r.text,
                                               "sqlite::" \o op \o ": failed"), ev(r))
                    /\ UNCHANGED <<db, stmt>>
               ELSE /\ Finish(op, 1, <<QdInt(SQLITE_ERR_OK)>>, 0, ev(r))
                    /\ db' = TxnAfter(a, cmd)
                    /\ UNCHANGED <<stmt, err>>

UsrSqliteBegin == TxnCommand("begin", "BEGIN TRANSACTION")

UsrSqliteCommit == TxnCommand("commit", "COMMIT")

UsrSqliteRollback == TxnCommand("rollback", "ROLLBACK")

(* ------------------------------------------------------- read accessors  *)

\* the value in column index of the row the statement is on; SQL NULL when
\* there is no row or no such column
Cell(a, index) ==
    IF IsLiveStmt(a) /\ stmt[a].run = "rows" /\ index = 0
    THEN RowsOf(stmt[a])[stmt[a].pos]
    ELSE SqlNull

\* the values a native column read can see (a released statement's memory
\* may or may not still hold a row)
Cells(a, index) ==
    CASE StmtClass(a) = "valid" -> {Cell(a, index)}
      [] StmtClass(a) = "null" -> {SqlNull}
      [] OTHER -> {SqlNull, QdInt(1)}

\* sqlite3_column_count
Sqlite3ColumnCount(a) ==
    CASE StmtClass(a) = "valid" -> {QdInt(1)}
      [] StmtClass(a) = "null" -> {QdInt(0)}
      [] OTHER -> {QdInt(0), QdInt(1)}

\* sqlite3_column_name, and the driver's  name ? name : ""
Sqlite3ColumnName(a, index) ==
    CASE StmtClass(a) = "valid" ->
            {QdStr(IF index # 0 THEN "" ELSE IF stmt[a].sql = SqlParam THEN "?1" ELSE "1")}
      [] StmtClass(a) = "null" -> {QdStr("")}
      [] OTHER -> {QdStr(""), QdStr("1")}

\* sqlite3_column_type: SQLITE_INTEGER 1, SQLITE_FLOAT 2, SQLITE_TEXT 3, SQLITE_NULL 5
TypeCode(v) ==
    CASE v.t = "INT" -> 1 [] v.t = "FLOAT" -> 2 [] v.t = "STR" -> 3 [] OTHER -> 5
Sqlite3ColumnType(a, index) == {QdInt(TypeCode(v)) : v \in Cells(a, index)}

\* sqlite3_column_int64: the value as a 64-bit integer (text that is no
\* number, and NULL, read as 0)
ToInt64(v) ==
    CASE v.t = "INT" -> v [] v.t = "FLOAT" -> QdInt64(v.h, v.i) [] OTHER -> QdInt(0)
Sqlite3ColumnInt64(a, index) == {ToInt64(v) : v \in Cells(a, index)}

\* sqlite3_column_double
ToDouble(v) ==
    CASE v.t \in {"INT", "FLOAT"} -> [QdFloat(v.i) EXCEPT !.h = v.h] [] OTHER -> QdFloat(0)
Sqlite3ColumnDouble(a, index) == {ToDouble(v) : v \in Cells(a, index)}

\* the decimal text of an integer of the model
IntText(v) ==
    IF v.h = 0 /\ v.i \in 0..9 THEN <<"0", "1", "2", "3", "4", "5", "6", "7", "8", "9">>[v.i + 1]
    ELSE IF v.h = 1 /\ v.i = 1 THEN "4294967297"
    ELSE "#"

\* sqlite3_column_text / sqlite3_column_bytes, and column_text's
\* text && len > 0 ? string of those bytes : ""
ToText(v) ==
    CASE v.t = "STR" -> (IF CastInt(TextLen(v.s)) > 0
                         THEN TextPrefix(v.s, CastInt(TextLen(v.s))) ELSE "")
      [] v.t = "INT" -> IntText(v)
      [] v.t = "FLOAT" -> IntText(v) \o ".0"
      [] OTHER -> ""
Sqlite3ColumnText(a, index) == {QdStr(ToText(v)) : v \in Cells(a, index)}

\* sqlite3_last_insert_rowid: the rows of t are numbered from 1 and none is
\* ever deleted, so the last rowid is the number of rows
Sqlite3DbCounter(a) ==
    CASE DbClass(a) = "valid" -> {QdInt(Len(db[a].tab))}
      [] DbClass(a) = "null" -> {QdInt(0)}
      [] OTHER -> {QdInt(0), QdInt(1)}

\* sqlite3_changes: the rows the latest INSERT stored (one, once there was one)
Sqlite3Changes(a) ==
    CASE DbClass(a) = "valid" -> {QdInt(Min(1, Len(db[a].tab)))}
      [] DbClass(a) = "null" -> {QdInt(0)}
      [] OTHER -> {QdInt(0), QdInt(1)}

\* an accessor (stmt:ptr -- value) or (db:ptr -- value): the default on a
\* missing or non-pointer operand, otherwise what the native call gives
Accessor1(op, default, native, class, results) ==
    IF ~PopOk(1, "PTR")
    THEN /\ Finish(op, Min(1, Len(stack)), <<default>>, 0, <<>>)
         /\ UNCHANGED <<db, stmt, err>>
    ELSE /\ \E v \in results :
               Finish(op, 1, <<v>>, 0, <<Native(native, Arg(1).i, class)>>)
         /\ UNCHANGED <<db, stmt, err>>

\* a two-operand accessor that treats a bad index as the binds do
Accessor2Strict(op, default, natives, results) ==
    IF ~PopOk(1, "PTR")
    THEN /\ Finish(op, Min(1, Len(stack)), <<default>>, 0, <<>>)
         /\ UNCHANGED <<db, stmt, err>>
    ELSE IF ~PopOk(2, "INT")
    THEN InvalidArg(op, 2, "sqlite::" \o op \o ": expected integer index")
    ELSE /\ \E v \in results :
               Finish(op, 2, <<v>>, 0,
                      [n \in 1..Len(natives) |-> StmtCall(natives[n], Arg(1).i, NoRc)])
         /\ UNCHANGED <<db, stmt, err>>

\* an accessor (index:i64 stmt:ptr -- value): the default on a missing or
\* mistyped operand, otherwise what the native calls give
\* Accessor2 with the declared frame on every path: a statement operand of
\* the wrong kind takes the index operand with it
Accessor2PopsBoth(op, default, natives, results) ==
    IF ~PopOk(1, "PTR") \/ ~PopOk(2, "INT")
    THEN /\ Finish(op, Min(2, Len(stack)), <<default>>, 0, <<>>)
         /\ UNCHANGED <<db, stmt, err>>
    ELSE /\ \E v \in results :
               Finish(op, 2, <<v>>, 0,
                      [n \in 1..Len(natives) |-> StmtCall(natives[n], Arg(1).i, NoRc)])
         /\ UNCHANGED <<db, stmt, err>>

Accessor2(op, default, natives, results) ==
    IF ~PopOk(1, "PTR")
    THEN /\ Finish(op, Min(1, Len(stack)), <<default>>, 0, <<>>)
         /\ UNCHANGED <<db, stmt, err>>
    ELSE IF ~PopOk(2, "INT")
    THEN /\ Finish(op, Min(2, Len(stack)), <<default>>, 0, <<>>)
         /\ UNCHANGED <<db, stmt, err>>
    ELSE /\ \E v \in results :
               Finish(op, 2, <<v>>, 0,
                      [n \in 1..Len(natives) |-> StmtCall(natives[n], Arg(1).i, NoRc)])
         /\ UNCHANGED <<db, stmt, err>>

\* the operands of a two-operand accessor, once both pops succeeded
StmtArg == IF PopOk(1, "PTR") THEN Arg(1).i ELSE 0
IndexArg == IF PopOk(2, "INT") THEN CastInt(Arg(2)) ELSE 0

UsrSqliteColumnCount ==
    Accessor1("column_count", QdInt(0), "sqlite3_column_count", StmtClass(StmtArg),
              Sqlite3ColumnCount(StmtArg))

UsrSqliteColumnName ==
    Accessor2("column_name", QdStr(""), <<"sqlite3_column_name">>,
              Sqlite3ColumnName(StmtArg, IndexArg))

UsrSqliteColumnType ==
    Accessor2("column_type", QdInt(0), <<"sqlite3_column_type">>,
              Sqlite3ColumnType(StmtArg, IndexArg))

UsrSqliteColumnInt ==
    Accessor2("column_int", QdInt(0), <<"sqlite3_column_int64">>,
              Sqlite3ColumnInt64(StmtArg, IndexArg))

UsrSqliteColumnFloat ==
    Accessor2("column_float", QdFloat(0), <<"sqlite3_column_double">>,
              Sqlite3ColumnDouble(StmtArg, IndexArg))

UsrSqliteColumnText ==
    Accessor2("column_text", QdStr(""), <<"sqlite3_column_text", "sqlite3_column_bytes">>,
              Sqlite3ColumnText(StmtArg, IndexArg))

UsrSqliteLastInsertRowid ==
    Accessor1("last_insert_rowid", QdInt(0), "sqlite3_last_insert_rowid", DbClass(StmtArg),
              Sqlite3DbCounter(StmtArg))

UsrSqliteChanges ==
    Accessor1("changes", QdInt(0), "sqlite3_changes", DbClass(StmtArg),
              Sqlite3Changes(StmtArg))

(* ------------------------------------------------------- specifications  *)

\* the error context of a fresh qd_context
NoError == [code |-> 0, msg |-> NullMsg]

\* the values a VM program puts on the stack: 1 and 2^32+1, 1.0, a good and
\* a bad path, a statement text, NULL and the first connection / statement
Inputs ==
    {QdInt(1), QdInt64(1, 1), QdFloat(1),
     QdStr(MemoryPath), QdStr(BadPath), QdStr(SqlParam),
     QdPtr(0), QdPtr(1), QdPtr(101)}

Stacks == UNION {[1..k -> Inputs] : k \in 0..MaxDepth}

\* one connection and one statement in the states a program can leave them in
LiveStmt(x, b, run, pos) ==
    [st |-> "live", of |-> 1, sql |-> x, bind |-> b, run |-> run, pos |-> pos]
Worlds ==
    {[d |-> NoDb, q |-> NoStmt],
     [d |-> [NoDb EXCEPT !.st = "open"], q |-> NoStmt],
     [d |-> [NoDb EXCEPT !.st = "open"], q |-> LiveStmt(SqlParam, SqlNull, "ready", 0)],
     [d |-> [NoDb EXCEPT !.st = "open", !.txn = TRUE], q |-> LiveStmt(SqlParam, QdStr(MemoryPath), "rows", 1)],
     [d |-> [NoDb EXCEPT !.st = "open"], q |-> LiveStmt(SqlTwoRows, SqlNull, "ready", 0)],
     [d |-> [NoDb EXCEPT !.st = "open"], q |-> LiveStmt(SqlTwoRows, SqlNull, "rows", 2)],
     [d |-> [NoDb EXCEPT !.st = "open"], q |-> LiveStmt(SqlTwoRows, SqlNull, "halt", 2)],
     [d |-> [NoDb EXCEPT !.st = "open"], q |-> LiveStmt(SqlParam, QdInt(1), "error", 0)],
     [d |-> [NoDb EXCEPT !.st = "open"], q |-> FreedStmt],
     [d |-> [NoDb EXCEPT !.st = "closed"], q |-> FreedStmt]}

\* One call of one primitive, on every input stack and in every world.
Init ==
    /\ stack \in Stacks
    /\ input = stack
    /\ \E w \in Worlds :
          /\ db = [a \in DbAddrs |-> IF a = 1 THEN w.d ELSE NoDb]
          /\ stmt = [a \in StmtSlots(MaxStmt) |-> IF a = 101 THEN w.q ELSE NoStmt]
    /\ err = NoError
    /\ last = NoCall

Fresh == last.op = "none"

Next ==
    \/ Fresh /\ UsrSqliteOpen
    \/ Fresh /\ UsrSqliteClose
    \/ Fresh /\ UsrSqliteExec
    \/ Fresh /\ UsrSqlitePrepare
    \/ Fresh /\ UsrSqliteBindText
    \/ Fresh /\ UsrSqliteBindInt
    \/ Fresh /\ UsrSqliteBindFloat
    \/ Fresh /\ UsrSqliteBindNull
    \/ Fresh /\ UsrSqliteStep
    \/ Fresh /\ UsrSqliteReset
    \/ Fresh /\ UsrSqliteFinalize
    \/ Fresh /\ UsrSqliteColumnCount
    \/ Fresh /\ UsrSqliteColumnName
    \/ Fresh /\ UsrSqliteColumnType
    \/ Fresh /\ UsrSqliteColumnInt
    \/ Fresh /\ UsrSqliteColumnFloat
    \/ Fresh /\ UsrSqliteColumnText
    \/ Fresh /\ UsrSqliteLastInsertRowid
    \/ Fresh /\ UsrSqliteChanges
    \/ Fresh /\ UsrSqliteBegin
    \/ Fresh /\ UsrSqliteCommit
    \/ Fresh /\ UsrSqliteRollback

Spec == Init /\ [][Next]_vars

\* A VM program from a fresh context: it pushes the operands of a primitive
\* in the order of its stack signature (texts, an index, the handles it was
\* given, of either kind), drops values, and calls open and the statement
\* primitives in any order and at any moment.
InitSeq ==
    /\ stack = <<>>
    /\ input = <<>>
    /\ db = [a \in DbAddrs |-> NoDb]
    /\ stmt = [a \in StmtSlots(MaxStmt) |-> NoStmt]
    /\ err = NoError
    /\ last = NoCall

SeqInputs ==
    {QdInt(1), QdStr(SqlParam), QdStr(SqlTwoRows)}
    \cup {QdPtr(a) : a \in {b \in DbAddrs : db[b].st # "none"}}
    \cup {QdPtr(a) : a \in {b \in StmtAddrs : stmt[b].st # "none"}}

\* the operand kinds, deepest first, of the signatures (path -- ), (db -- ),
\* (sql db -- ) and (value index stmt -- )
SeqFrames == {<<"STR">>, <<"PTR">>, <<"STR", "PTR">>, <<"INT", "INT", "PTR">>}
OperandPrefix(s) ==
    \E f \in SeqFrames :
        Len(s) <= Len(f) /\ \A i \in 1..Len(s) : s[i].t = f[i]

VmPush ==
    /\ \E e \in SeqInputs :
          /\ OperandPrefix(Append(stack, e))
          /\ stack' = Append(stack, e)
    /\ last' = NoCall
    /\ UNCHANGED <<db, stmt, err, input>>

VmDrop ==
    /\ stack # <<>>
    /\ stack' = SubSeq(stack, 1, Len(stack) - 1)
    /\ last' = NoCall
    /\ UNCHANGED <<db, stmt, err, input>>

NextSeq ==
    \/ VmPush
    \/ VmDrop
    \/ UsrSqliteOpen
    \/ UsrSqlitePrepare
    \/ UsrSqliteBindInt
    \/ UsrSqliteStep
    \/ UsrSqliteReset
    \/ UsrSqliteFinalize

SpecSeq == InitSeq /\ [][NextSeq]_vars

\* The same VM programs with close and exec among the calls: the programs
\* in which failures of different primitives follow one another.
NextErr ==
    \/ VmPush
    \/ VmDrop
    \/ UsrSqliteOpen
    \/ UsrSqliteClose
    \/ UsrSqliteExec
    \/ UsrSqlitePrepare
    \/ UsrSqliteStep
    \/ UsrSqliteFinalize

SpecErr == InitSeq /\ [][NextErr]_vars

\* The round trip of one text value: on a connection whose table t (x) is
\* empty, a VM program prepares the INSERT and the SELECT, binds the text
\* (kept in input) to parameter 1, steps, resets, finalizes and reads
\* column 0, in any order.
TextValues == {"", ShortText, HugeText}

InitRound ==
    /\ stack = <<>>
    /\ input \in {<<QdStr(v)>> : v \in TextValues}
    /\ db = [a \in DbAddrs |-> IF a = 1 THEN [NoDb EXCEPT !.st = "open", !.tbl = TRUE] ELSE NoDb]
    /\ stmt = [a \in StmtSlots(MaxStmt + 1) |-> NoStmt]
    /\ err = NoError
    /\ last = NoCall

\* the operands of (sql db -- ), (value index stmt -- ), (index stmt -- )
\* and (stmt -- ), deepest first
RoundFrames ==
    {<<QdStr(q), QdPtr(1)>> : q \in {SqlInsert, SqlSelect}}
    \cup UNION {{<<input[1], QdInt(1), QdPtr(a)>>, <<QdInt(0), QdPtr(a)>>, <<QdPtr(a)>>} :
                 a \in {b \in StmtAddrs : stmt[b].st # "none"}}

VmPushRound ==
    /\ \E f \in RoundFrames :
          /\ Len(stack) < Len(f)
          /\ stack = SubSeq(f, 1, Len(stack))
          /\ stack' = SubSeq(f, 1, Len(stack) + 1)
    /\ last' = NoCall
    /\ UNCHANGED <<db, stmt, err, input>>

NextRound ==
    \/ VmPushRound
    \/ VmDrop
    \/ UsrSqlitePrepare
    \/ UsrSqliteBindText
    \/ UsrSqliteStep
    \/ UsrSqliteReset
    \/ UsrSqliteFinalize
    \/ UsrSqliteColumnText

SpecRound == InitRound /\ [][NextRound]_vars

(* ------------------------------------------------------- claims          *)
\* Under Spec, input is the stack the one call of a behaviour started from.

Called == last.op # "none"

Fallible ==
    {"open", "exec", "prepare", "bind_text", "bind_int", "bind_float", "bind_null",
     "step", "reset", "begin", "commit", "rollback"}
Cleanup == {"close", "finalize"}
ReadAccessors ==
    {"column_count", "column_name", "column_type", "column_int", "column_float",
     "column_text", "last_insert_rowid", "changes"}

\* the operand kinds of a primitive's stack signature, in pop order
Signature(op) ==
    CASE op \in {"open"} -> <<"STR">>
      [] op \in {"exec", "prepare"} -> <<"PTR", "STR">>
      [] op = "bind_text" -> <<"PTR", "INT", "STR">>
      [] op = "bind_int" -> <<"PTR", "INT", "INT">>
      [] op = "bind_float" -> <<"PTR", "INT", "FLOAT">>
      [] op \in {"bind_null", "column_name", "column_type", "column_int",
                 "column_float", "column_text"} -> <<"PTR", "INT">>
      [] OTHER -> <<"PTR">>

\* the i-th operand of the input stack in pop order (1 = top)
InArg(i) == input[Len(input) + 1 - i]
InOk(op, i) == Len(input) >= i /\ InArg(i).t = Signature(op)[i]

\* the first operand, in pop order, that is missing or of the wrong kind (0: none)
FirstBad(op) ==
    IF \A i \in 1..Len(Signature(op)) : InOk(op, i) THEN 0
    ELSE CHOOSE i \in 1..Len(Signature(op)) : ~InOk(op, i) /\ \A j \in 1..(i - 1) : InOk(op, j)

NativeCalls == {n \in 1..Len(last.ev) : last.ev[n].k = "native"}
Releases == {n \in 1..Len(last.ev) : last.ev[n].k = "release"}

\* the stack is the input without the popped operands, plus the pushes
Framed == stack = SubSeq(input, 1, Len(input) - last.npop) \o last.pushed

\* C1: a fallible primitive whose operands, in pop order, are missing or of
\* the wrong kind returns INVALID_ARGUMENT (7), sets the error code to 7 and
\* the message to a non-empty text, makes no native call, pushes nothing and
\* pops nothing beyond the operand that revealed the mismatch.
C1_InvalidArgument ==
    (Called /\ last.op \in Fallible /\ FirstBad(last.op) # 0) =>
        /\ last.ret = 7
        /\ err.code = 7
        /\ err.msg # NullMsg
        /\ NativeCalls = {}
        /\ last.pushed = <<>>
        /\ last.npop = Min(FirstBad(last.op), Len(input))
        /\ Framed

\* a Pointer met where exec wants its String, with an element beneath that stays
C1_Witness ==
    /\ last.op = "exec"
    /\ Len(input) = 3 /\ InArg(1).t = "PTR" /\ InArg(2).t = "PTR"
    /\ last.ret = 7 /\ stack = <<input[1]>>

\* the result of the native call that decided the outcome of the call
Decider == last.ev[CHOOSE n \in NativeCalls : \A m \in NativeCalls : n <= m]
NativeOk == NativeCalls # {} /\ Decider.rc \in {"SQLITE_OK", "SQLITE_ROW", "SQLITE_DONE"}

\* the call made no native call on a handle the engine does not accept
Accepted == NativeCalls = {} \/ last.op = "open" \/ Decider.c = "valid"

\* the code of a primitive's native failure
OpCode(op) ==
    CASE op = "open" -> 2
      [] op \in {"exec", "begin", "commit", "rollback"} -> 3
      [] op = "prepare" -> 4
      [] op \in {"bind_text", "bind_int", "bind_float", "bind_null"} -> 5
      [] OTHER -> 6

\* C2: when the native engine reports a failure to Open, Exec, Prepare, a
\* Bind or Step (here: on a handle the engine accepts), the stored message
\* is the operation's name followed by the engine's diagnostic text, and
\* the stored code is the operation's code, which is also returned.
C2_NativeDiagnostic ==
    (/\ Called
     /\ last.op \in {"open", "exec", "prepare", "bind_text", "bind_int", "bind_float",
                     "bind_null", "step"}
     /\ NativeCalls # {} /\ ~NativeOk
     /\ Accepted) =>
        /\ last.ret = OpCode(last.op)
        /\ err.code = OpCode(last.op)
        /\ err.msg = "sqlite::" \o last.op \o ": " \o Decider.text

\* the values a successful call of a fallible primitive pushes
PushedResult(op) ==
    CASE op \in {"open", "prepare"} ->
            /\ Len(last.pushed) = 2
            /\ last.pushed[1] = QdPtr(Decider.out)
            /\ last.pushed[2] = QdInt(1)
      [] op = "step" ->
            /\ Len(last.pushed) = 2
            /\ last.pushed[1] \in {QdInt(0), QdInt(1)}
            /\ last.pushed[2] = QdInt(1)
      [] OTHER -> last.pushed = <<QdInt(1)>>

\* C3 as stated (here: on handles the engine accepts): a fallible primitive
\* returns 0 with well-typed operands and a successful native call if and
\* only if it pushed its results and then OK (1) on top; on a non-zero
\* return nothing is pushed.
C3_Original ==
    (Called /\ last.op \in Fallible /\ Accepted) =>
        /\ (last.ret = 0 /\ FirstBad(last.op) = 0 /\ NativeOk)
              <=> (last.pushed # <<>> /\ PushedResult(last.op) /\ Framed)
        /\ last.ret # 0 => (last.pushed = <<>> /\ Framed)

\* C3 amended: the same, except that Reset pushes OK and returns 0 whatever
\* the native reset returned.
C3_ResultProtocol ==
    (Called /\ last.op \in Fallible) =>
        /\ (last.ret = 0 /\ FirstBad(last.op) = 0 /\ (NativeOk \/ last.op = "reset"))
              <=> (last.pushed # <<>> /\ PushedResult(last.op) /\ Framed)
        /\ last.ret = 0 <=> last.pushed # <<>>
        /\ last.ret # 0 => (last.pushed = <<>> /\ Framed)

\* a prepare that pushed the new statement handle beneath OK, above an
\* element it left alone
C3_Witness ==
    /\ last.op = "prepare" /\ last.ret = 0
    /\ Len(input) = 3
    /\ stack = <<input[1], QdPtr(101), QdInt(1)>>

\* how often the text x is among the String operands popped / released
PoppedCount(x) ==
    Cardinality({i \in 1..last.npop : InArg(i).t = "STR" /\ InArg(i).s = x})
ReleasedCount(x) == Cardinality({n \in Releases : last.ev[n].s = x})
Texts == {InArg(i).s : i \in 1..Len(input)}

\* C5: every String operand a primitive pops is released exactly once by
\* the time it returns, on every path; for open, exec, prepare and
\* bind_text the release comes after the native call that reads the bytes.
C5_StringReleased ==
    Called =>
        /\ \A x \in Texts : PoppedCount(x) = ReleasedCount(x)
        /\ \A n \in Releases : last.ev[n].s \in Texts
        /\ last.op \in {"open", "exec", "prepare", "bind_text"} =>
              \A n \in Releases : \E m \in NativeCalls : m < n

\* C6: Close and Finalize return 0, push nothing and leave the error
\* context as it was; the native release is invoked exactly when the popped
\* operand is a non-null Pointer.
C6_CleanupSilent ==
    (Called /\ last.op \in Cleanup) =>
        /\ last.ret = 0
        /\ last.pushed = <<>>
        /\ Framed /\ last.npop = Min(1, Len(input))
        /\ err = NoError
        /\ NativeCalls # {} <=> (Len(input) >= 1 /\ InArg(1).t = "PTR" /\ InArg(1).i # 0)

\* the kind and the default value of a read accessor's result
ResultKind(op) ==
    CASE op \in {"column_name", "column_text"} -> "STR"
      [] op = "column_float" -> "FLOAT"
      [] OTHER -> "INT"
Default(op) ==
    CASE op \in {"column_name", "column_text"} -> QdStr("")
      [] op = "column_float" -> QdFloat(0)
      [] OTHER -> QdInt(0)

\* C10: a read accessor returns 0, pushes exactly one value of its declared
\* kind and no status, and leaves the error context alone; when an operand
\* is missing or mistyped the value is the default and no native call is made.
C10_AccessorTotal ==
    (Called /\ last.op \in ReadAccessors) =>
        /\ last.ret = 0
        /\ Len(last.pushed) = 1
        /\ last.pushed[1].t = ResultKind(last.op)
        /\ err = NoError
        /\ Framed
        /\ last.npop = IF FirstBad(last.op) = 0 THEN Len(Signature(last.op))
                       ELSE Min(FirstBad(last.op), Len(input))
        /\ FirstBad(last.op) # 0 => (last.pushed[1] = Default(last.op) /\ NativeCalls = {})

\* column_float given a String where the index belongs: 0.0, no native call
C10_Witness ==
    /\ last.op = "column_float"
    /\ Len(input) = 3 /\ InArg(1).t = "PTR" /\ InArg(2).t = "STR"
    /\ stack = <<input[1], QdFloat(0)>>
    /\ last.ev = <<>>

\* C4: the native close is invoked only on an open connection that Open
\* created, and the native finalize only on a live statement that Prepare
\* created; so no handle is released twice or as the wrong kind.
C4_ReleaseOnce ==
    \A n \in NativeCalls :
        last.ev[n].f \in {"sqlite3_close", "sqlite3_finalize"} => last.ev[n].c = "valid"

\* the prepared statement a call is about, and whether the call is about one
OnLiveStmt == PopOk(1, "PTR") /\ IsLiveStmt(Arg(1).i)

\* C7 as stated: Reset of a prepared statement returns 0, pushes OK, and
\* leaves the statement at its start such that the next Step cycle, with no
\* new bindings, yields the rows the statement yielded before.
C7_Original ==
    [][(UsrSqliteReset /\ OnLiveStmt) =>
          LET a == Arg(1).i
          IN /\ last'.ret = 0 /\ last'.pushed = <<QdInt(1)>>
             /\ stmt'[a].run = "ready" /\ stmt'[a].pos = 0
             /\ Rows(stmt'[a].sql, stmt'[a].bind) = Rows(stmt[a].sql, stmt[a].bind)]_vars

\* C7 amended: Reset returns 0 and pushes OK whatever the native reset
\* returns, and leaves the statement at its start, bindable, with every
\* parameter cleared to NULL: the next Step cycle yields the original rows
\* if the statement had no bound value, and would under any binding v
\* yield what the statement yielded under v before (bindings re-applied).
C7_ResetRestores ==
    [][(UsrSqliteReset /\ OnLiveStmt) =>
          LET a == Arg(1).i
          IN /\ last'.ret = 0 /\ last'.pushed = <<QdInt(1)>>
             /\ stmt'[a].run = "ready" /\ stmt'[a].pos = 0
             /\ stmt'[a].bind = SqlNull
             /\ stmt[a].bind = SqlNull =>
                   Rows(stmt'[a].sql, stmt'[a].bind) = Rows(stmt[a].sql, stmt[a].bind)
             /\ \A v \in {SqlNull, QdInt(1)} :
                   Rows(stmt'[a].sql, v) = Rows(stmt[a].sql, v)]_vars

\* a reset of the two-row statement after its complete Step cycle
C7_Witness ==
    /\ last.op = "reset" /\ last.ret = 0
    /\ Decider.c = "valid" /\ Decider.run = "halt"
    /\ stmt[101].sql = SqlTwoRows /\ stmt[101].run = "ready"

\* the value operand's kind of a bind, "" for bind_null
BindOps == {"bind_text", "bind_int", "bind_float", "bind_null"}
BindValueOf(op) == IF op = "bind_null" THEN SqlNull ELSE Arg(3)
BindTyped(op) ==
    \A i \in 1..Len(Signature(op)) : PopOk(i, Signature(op)[i])

\* a bind call on a prepared statement that has not been stepped since it
\* was prepared or reset
BindOnReady(op) ==
    /\ Fresh /\ last'.op = op /\ op \in BindOps
    /\ BindTyped(op) /\ OnLiveStmt /\ stmt[Arg(1).i].run = "ready"

\* C8 as stated: an index whose 64-bit value is outside 1..N fails with
\* BIND_ERROR (5), pushes nothing and binds nothing; an index in 1..N binds
\* that parameter and pushes OK.
C8_Original ==
    [][\A op \in BindOps : BindOnReady(op) =>
          LET a == Arg(1).i
          IN IF Arg(2).h = 0 /\ Arg(2).i \in 1..NParams(stmt[a].sql)
             THEN /\ last'.ret = 0 /\ last'.pushed = <<QdInt(1)>>
                  /\ stmt' = [stmt EXCEPT ![a].bind = BindValueOf(op)]
             ELSE /\ last'.ret = 5 /\ err'.code = 5 /\ last'.pushed = <<>>
                  /\ stmt' = stmt]_vars

\* C8 amended: the index is first truncated to its low 32 bits (as a signed
\* int); if that is outside 1..N the bind fails with BIND_ERROR (5), pushes
\* nothing and binds nothing, otherwise it binds that parameter and pushes OK.
C8_BindIndex ==
    [][\A op \in BindOps : BindOnReady(op) =>
          LET a == Arg(1).i
          IN IF Arg(2).i \in 1..NParams(stmt[a].sql)
             THEN /\ last'.ret = 0 /\ last'.pushed = <<QdInt(1)>>
                  /\ stmt' = [stmt EXCEPT ![a].bind = BindValueOf(op)]
             ELSE /\ last'.ret = 5 /\ err'.code = 5 /\ last'.pushed = <<>>
                  /\ stmt' = stmt]_vars

\* bind_int with index 2^32+1 bound the first parameter of a one-parameter statement
C8_Witness ==
    /\ last.op = "bind_int" /\ last.ret = 0
    /\ Len(input) = 3 /\ InArg(2) = QdInt64(1, 1) /\ InArg(1) = QdPtr(101)
    /\ Decider.c = "valid" /\ Decider.run = "ready"
    /\ stmt[101].sql = SqlParam /\ stmt[101].bind = InArg(3)

\* C9: Step on a Pointer pushes 1 then OK exactly when the native step
\* reports a row, 0 then OK exactly when it reports completion, and
\* otherwise pushes nothing and fails with STEP_ERROR (6); a statement of k
\* rows has given exactly k rows when Step yields 0.
C9_Step ==
    (last.op = "step" /\ NativeCalls # {}) =>
        /\ Decider.rc = "SQLITE_ROW" <=> (last.ret = 0 /\ last.pushed = <<QdInt(1), QdInt(1)>>)
        /\ Decider.rc = "SQLITE_DONE" <=> (last.ret = 0 /\ last.pushed = <<QdInt(0), QdInt(1)>>)
        /\ Decider.rc \notin {"SQLITE_ROW", "SQLITE_DONE"} =>
              (last.ret = 6 /\ err.code = 6 /\ last.pushed = <<>>)
        /\ (Decider.c = "valid" /\ last.ret = 0) =>
              LET s == stmt[Decider.a]
                  k == Len(Rows(s.sql, s.bind))
              IN IF last.pushed[1] = QdInt(1)
                 THEN s.run = "rows" /\ s.pos \in 1..k
                 ELSE s.run = "halt" /\ s.pos = k

\* the third Step of the two-row statement: two rows were given, now 0
C9_Witness ==
    /\ last.op = "step" /\ last.pushed = <<QdInt(0), QdInt(1)>>
    /\ Decider.c = "valid" /\ Decider.run = "rows"
    /\ stmt[101].sql = SqlTwoRows /\ stmt[101].pos = 2

\* the texts after "sqlite::<op>: " in the messages a primitive stores
Diagnostics ==
    {"expected string path", "expected database pointer", "expected SQL string",
     "expected statement pointer", "expected integer index", "expected string value",
     "expected integer value", "expected float value", "bind failed", "execution failed",
     "failed", "no such table: t", "database or disk is full", "string or blob too big",
     "unknown error", "unable to open database file", "syntax error",
     "bad parameter or other API misuse", "database is locked", "not an error",
     "cannot start a transaction within a transaction", "no transaction is active"}
ErrorTexts(op) == {"sqlite::" \o op \o ": " \o d : d \in Diagnostics}

\* C11: the error context always holds the code and the message of the
\* latest failed call: a call that fails (non-zero return) writes its own
\* code and its own message, and a call that does not fail writes neither.
C11_ErrorContext ==
    [][last'.op # "none" =>
          IF last'.ret # 0
          THEN err'.code = last'.ret /\ err'.msg \in ErrorTexts(last'.op)
          ELSE err' = err]_vars

\* C12: column_text of column 0 of a SELECT on t that stands on a row (its
\* last Step gave has_row = 1) whose value bind_text stored pushes a String
\* with the length and the bytes of the text that was bound.
C12_RoundTrip ==
    [][(/\ UsrSqliteColumnText
        /\ PopOk(1, "PTR") /\ PopOk(2, "INT") /\ Arg(2) = QdInt(0)
        /\ OnLiveStmt
        /\ stmt[Arg(1).i].sql = SqlSelect /\ stmt[Arg(1).i].run = "rows"
        /\ Cell(Arg(1).i, 0).t = "STR")
       => last'.pushed = <<input[1]>>]_vars

\* The accessors declared (index stmt -- value).
TwoOperand ==
    {"column_name", "column_type", "column_int", "column_float", "column_text"}

\* C13 as stated: on a stack of at least two elements an (index stmt -- value)
\* accessor removes the top two and pushes one on every path, so the depth is
\* one less and the elements beneath the two operands are unchanged.
C13_Original ==
    (Called /\ last.op \in TwoOperand /\ Len(input) >= 2) =>
        /\ last.npop = 2
        /\ Len(last.pushed) = 1
        /\ Len(stack) = Len(input) - 1
        /\ SubSeq(stack, 1, Len(input) - 2) = SubSeq(input, 1, Len(input) - 2)

\* C13: on a stack of at least two elements an (index stmt -- value) accessor
\* pushes exactly one element and leaves everything beneath what it popped
\* unchanged; it pops the top two (depth one less) when the top element is a
\* Pointer, whatever the kind of the second, and only the top one (depth
\* unchanged) when the top element is not a Pointer.
C13_FrameEffect ==
    (Called /\ last.op \in TwoOperand /\ Len(input) >= 2) =>
        /\ Len(last.pushed) = 1
        /\ Framed
        /\ last.npop = IF InArg(1).t = "PTR" THEN 2 ELSE 1
        /\ Len(stack) = IF InArg(1).t = "PTR" THEN Len(input) - 1 ELSE Len(input)

C13_Witness ==
    /\ last.op = "column_int"
    /\ Len(input) = 3 /\ InArg(1).t = "STR" /\ InArg(2).t = "INT"
    /\ last.npop = 1
    /\ stack = <<input[1], input[2], QdInt(0)>>

====
